---- MODULE Spec2Model ----
(***************************************************************************)
(* Model of validator_demo.py: a Streamlit page that validates a startup   *)
(* idea through an LLM provider chosen by a three-tier fallback, behind a  *)
(* session cap, a cooldown, a TTL result cache and a retry loop.           *)
(*                                                                         *)
(* One session of the page is modelled.  Every user interaction reruns the *)
(* script from its first line: the provider selection at the top           *)
(* (lines 101-105) is therefore part of every run.  The body of the        *)
(* "Validate Idea" handler is split at its blocking points (the job-runner *)
(* call and the back-off sleep); pc is the handler's position, and no user *)
(* action is taken while the handler runs.                                 *)
(*                                                                         *)
(* The environment is nondeterministic: which credentials st.secrets       *)
(* holds (fixed for a behaviour), which LLM(...) constructions raise (per  *)
(* selection), what the job runner does (a report, RateLimitError or any   *)
(* other exception), and how much time passes between interactions.        *)
(* Time is in whole seconds.  Only differences of timestamps are read by   *)
(* the program, so timestamps are kept as offsets from the present: the    *)
(* current instant is 0 and a stored datetime.now() of e seconds ago is    *)
(* -e; when d seconds pass every stored timestamp moves back by d.         *)
(* A gap between two interactions ends with a run in which no button is    *)
(* clicked (the user comes back and edits the text area); a click follows  *)
(* such a run, or the previous run, at once.                               *)
(***************************************************************************)
EXTENDS Integers, Sequences, FiniteSets, TLC

VARIABLES
    secrets,            \* the api_key_name values present in st.secrets
    validation_count,   \* st.session_state.validation_count
    last_request_time,  \* st.session_state.last_request_time: <<>> (None) or <<t>>
    active_provider,    \* name of the provider behind llm, "none" when the script halted
    cache,              \* st.cache_data entries of run_single_agent_validation
    pc,                 \* "idle" | "call" | "backoff": position in the handler
    idea,               \* the text area as the last click found it, <<>> without a click
    idea_hash,          \* hashlib.md5(idea.strip().lower().encode()).hexdigest()
    attempt,            \* loop variable of `for attempt in range(max_retries)`
    shown,              \* what the last script run rendered: [kind, report]
    trace,              \* history: job-runner calls, sleeps and re-selections of this run
    ctorFails,          \* environment: provider names whose LLM(...) raised in the last selection
    advances            \* history: number of gaps between interactions

vars == <<secrets, validation_count, last_request_time, active_provider, cache,
          pc, idea, idea_hash, attempt, shown, trace, ctorFails, advances>>

-----------------------------------------------------------------------------
\* Bounds of the model.

\* number of gaps between interactions
MaxAdvances == 3

\* gaps between two interactions, in seconds
TimeSteps == {299, 300, 3600, 86400}
Gaps == {0} \cup TimeSteps
\* the texts a user submits: empty, blank, "a", and " A " (which strips and
\* lower-cases to "a")
Texts == {<<>>, <<" ">>, <<"a">>, <<" ", "A", " ">>}
\* the reports the external model may return
Reports == {"r1"}

-----------------------------------------------------------------------------
\* Program constants.

session_limit == 3
cooldown_period == 300
max_retries == 3
retry_delays == <<10, 20, 40>>
ttl == 3600
\* timedelta.seconds is the seconds field of a timedelta: 0 .. 86399
SecondsPerDay == 86400
\* datetime.now(), the origin of the timestamps
Now == 0

providers ==
    << [name |-> "Groq (Fast)", api_key_name |-> "GROQ_API_KEY", priority |-> 1],
       [name |-> "OpenRouter (Reliable)", api_key_name |-> "OPENROUTER_API_KEY", priority |-> 2],
       [name |-> "Hugging Face (Backup)", api_key_name |-> "HUGGINGFACE_API_KEY", priority |-> 3] >>

ProviderNames == {providers[i].name : i \in 1..Len(providers)}
KeyNames == {providers[i].api_key_name : i \in 1..Len(providers)}

None == <<>>
NoProvider == "none"
SelectionError == "All LLM providers unavailable"

-----------------------------------------------------------------------------
\* Text: str.strip(), str.lower(), md5.

RECURSIVE lstrip(_)
lstrip(s) == IF s # <<>> /\ Head(s) = " " THEN lstrip(Tail(s)) ELSE s

RECURSIVE rstrip(_)
rstrip(s) == IF s # <<>> /\ s[Len(s)] = " " THEN rstrip(SubSeq(s, 1, Len(s) - 1)) ELSE s

strip(s) == rstrip(lstrip(s))

lower(s) == [i \in 1..Len(s) |-> IF s[i] = "A" THEN "a" ELSE s[i]]

\* md5 is taken collision-free: the digest is a tagged copy of the bytes hashed
md5_hexdigest(s) == [md5 |-> s]

make_idea_hash(text) == md5_hexdigest(lower(strip(text)))

-----------------------------------------------------------------------------
\* get_llm_with_fallback: the first provider, in list order, whose key is in
\* st.secrets and whose LLM(...) construction does not raise.

RECURSIVE select_from(_, _, _)
select_from(i, keys, fails) ==
    IF i > Len(providers) THEN SelectionError
    ELSE IF providers[i].api_key_name \in keys /\ providers[i].name \notin fails
         THEN providers[i].name
         ELSE select_from(i + 1, keys, fails)

\* Faulty variant: the loop keeps going after a success, so the last available provider wins.
RECURSIVE select_last(_, _, _)
select_last(i, keys, fails) ==
    IF i < 1 THEN SelectionError
    ELSE IF providers[i].api_key_name \in keys /\ providers[i].name \notin fails
         THEN providers[i].name
         ELSE select_last(i - 1, keys, fails)

get_llm_with_fallback_last(keys, fails) == select_last(Len(providers), keys, fails)

get_llm_with_fallback(keys, fails) == select_from(1, keys, fails)

\* LLM(...) is only called for the providers whose key is present
Attempted(keys) == {providers[i].name : i \in {j \in 1..Len(providers) : providers[j].api_key_name \in keys}}

\* The constructions that raise in one call of get_llm_with_fallback: the loop
\* returns at the first construction that does not raise, so they are the
\* first n of the attempted ones, for some n.
Failures(keys) ==
    {{providers[i].name : i \in {j \in 1..n : providers[j].api_key_name \in keys}} : n \in 0..Len(providers)}

-----------------------------------------------------------------------------
\* Time passing.

\* a stored timestamp, d seconds later
later(last, d) == IF last = None THEN None ELSE <<last[1] - d>>

-----------------------------------------------------------------------------
\* Throttle.

\* (datetime.now() - last_request_time).seconds
time_elapsed(last) == (Now - last[1]) % SecondsPerDay

\* Faulty variant: the cap compared with > instead of >=.
limit_reached_late(count) == count > session_limit

limit_reached(count) == count >= session_limit

cooldown_active(last) == last # None /\ time_elapsed(last) < cooldown_period

is_blank(text) == strip(text) = <<>>

-----------------------------------------------------------------------------
\* st.cache_data(ttl=3600): keyed by the hashed arguments idea_hash and
\* idea_text (the parameter _llm is not hashed); an entry older than ttl is gone.

cache_key(h, text) == [idea_hash |-> h, idea_text |-> text]

fresh(e) == Now - e.at < ttl

\* the cache, d seconds later
cache_later(c, d) == {e \in {[x EXCEPT !.at = x.at - d] : x \in c} : fresh(e)}

cache_lookup(c, k) == {e \in c : e.key = k /\ fresh(e)}

cache_store(c, k, r) == {e \in c : e.key # k} \cup {[key |-> k, value |-> r, at |-> Now]}

-----------------------------------------------------------------------------
\* What a run rendered, and the history of the retry loop.

Show(kind, report) == [kind |-> kind, report |-> report]

\* ev: "hit" | "ok" | "rate" | "fatal" (a call of run_single_agent_validation),
\*     "sleep" (the back-off wait), "select" | "selectfail" (the re-selection)
Event(ev, report, d) == [ev |-> ev, report |-> report, d |-> d]

\* the button is rendered by every run that passed the selection at the top
ButtonShown == shown.kind \notin {"unloaded", "config_error"}

\* the sidebar is rendered by every run that reached the end of the script
SidebarShown == shown.kind \in {"form", "done", "exhausted", "fatal", "all_rate_limited"}

Init ==
    /\ secrets \in SUBSET KeyNames
    /\ validation_count = 0
    /\ last_request_time = None
    /\ active_provider = NoProvider
    /\ cache = {}
    /\ pc = "idle"
    /\ idea = <<>>
    /\ idea_hash = make_idea_hash(<<>>)
    /\ attempt = 0
    /\ shown = Show("unloaded", "none")
    /\ trace = <<>>
    /\ ctorFails = {}
    /\ advances = 0

\* d seconds pass before an interaction.
Tick(d) ==
    /\ d # 0 => advances < MaxAdvances
    /\ advances' = IF d = 0 THEN advances ELSE advances + 1

\* Lines 1-105 of a run that does not accept a submission: the handler's
\* locals are not set, the loop's history is empty.
NoHandler ==
    /\ pc' = "idle"
    /\ idea' = <<>>
    /\ idea_hash' = make_idea_hash(<<>>)
    /\ attempt' = 0
    /\ trace' = <<>>

\* Faulty variant: the error is shown but st.stop() is missing, the page goes on.
Halted_no_stop(fails) ==
    /\ get_llm_with_fallback(secrets, fails) = SelectionError
    /\ ctorFails' = fails
    /\ active_provider' = NoProvider
    /\ shown' = Show("form", "none")
    /\ NoHandler

\* The selection at the top of every run failed: st.error, st.stop().
Halted(fails) ==
    /\ get_llm_with_fallback(secrets, fails) = SelectionError
    /\ ctorFails' = fails
    /\ active_provider' = NoProvider
    /\ shown' = Show("config_error", "none")
    /\ NoHandler

\* The selection at the top of every run succeeded.
Selected(fails) ==
    /\ get_llm_with_fallback(secrets, fails) # SelectionError
    /\ ctorFails' = fails
    /\ active_provider' = get_llm_with_fallback(secrets, fails)

\* A run in which no button was clicked (page load, or an edit of the text
\* area), d seconds after the previous interaction.
Rerun(d) ==
    /\ pc = "idle"
    /\ Tick(d)
    /\ last_request_time' = later(last_request_time, d)
    /\ cache' = cache_later(cache, d)
    /\ \E fails \in Failures(secrets) :
         \/ Halted(fails)
         \/ Selected(fails) /\ shown' = Show("form", "none") /\ NoHandler
    /\ UNCHANGED <<secrets, validation_count>>

-----------------------------------------------------------------------------
\* The "Validate Idea" handler, lines 270-303.

\* Faulty variant: "Update tracking" stamps the request before the checks.
Reject_stamped(kind, text) ==
    /\ shown' = Show(kind, "none")
    /\ idea' = text
    /\ idea_hash' = make_idea_hash(<<>>)
    /\ pc' = "idle"
    /\ attempt' = 0
    /\ trace' = <<>>
    /\ last_request_time' = <<Now>>
    /\ UNCHANGED <<validation_count, cache>>

\* st.warning / st.error, then st.stop(): nothing else of the run is executed.
Reject(kind, text) ==
    /\ shown' = Show(kind, "none")
    /\ idea' = text
    /\ idea_hash' = make_idea_hash(<<>>)
    /\ pc' = "idle"
    /\ attempt' = 0
    /\ trace' = <<>>
    /\ UNCHANGED <<validation_count, last_request_time, cache>>

\* "Update tracking" and the hash, then the loop is entered with attempt = 0.
Accept(text) ==
    /\ last_request_time' = <<Now>>
    /\ validation_count' = validation_count + 1
    /\ idea' = text
    /\ idea_hash' = make_idea_hash(text)
    /\ attempt' = 0
    /\ trace' = <<>>
    /\ pc' = "call"
    /\ shown' = Show("running", "none")
    /\ UNCHANGED cache

validate_clicked(text) ==
    IF is_blank(text) THEN Reject("empty_warning", text)
    ELSE IF limit_reached(validation_count) THEN Reject("limit", text)
    ELSE IF cooldown_active(last_request_time) THEN Reject("cooldown", text)
    ELSE Accept(text)

\* A run in which "Validate Idea" was clicked with `text` in the text area.
Submit(text) ==
    /\ pc = "idle"
    /\ ButtonShown
    /\ \E fails \in Failures(secrets) :
         \/ Halted(fails) /\ UNCHANGED <<validation_count, last_request_time, cache>>
         \/ Selected(fails) /\ validate_clicked(text)
    /\ UNCHANGED <<secrets, advances>>

-----------------------------------------------------------------------------
\* The retry loop, lines 308-374.

\* Faulty variant: the break after the success path is missing.
Succeed_no_break(ev, r) ==
    /\ trace' = Append(trace, Event(ev, r, 0))
    /\ shown' = Show("done", r)
    /\ pc' = IF attempt < max_retries - 1 THEN "call" ELSE "idle"
    /\ attempt' = IF attempt < max_retries - 1 THEN attempt + 1 ELSE attempt
    /\ UNCHANGED <<active_provider, ctorFails>>

\* The success path of the try block: the report is rendered, then break.
Succeed(ev, r) ==
    /\ trace' = Append(trace, Event(ev, r, 0))
    /\ shown' = Show("done", r)
    /\ pc' = "idle"
    /\ UNCHANGED <<attempt, active_provider, ctorFails>>

\* run_single_agent_validation returns the cached value: its body is not run.
CallHit ==
    /\ pc = "call"
    /\ \E e \in cache_lookup(cache, cache_key(idea_hash, idea)) : Succeed("hit", e.value)
    /\ UNCHANGED <<secrets, validation_count, last_request_time, cache, idea, idea_hash,
                   advances>>

\* The body runs, crew.kickoff() returns r, the value is cached.
CallOk(r) ==
    /\ pc = "call"
    /\ cache_lookup(cache, cache_key(idea_hash, idea)) = {}
    /\ cache' = cache_store(cache, cache_key(idea_hash, idea), r)
    /\ Succeed("ok", r)
    /\ UNCHANGED <<secrets, validation_count, last_request_time, idea, idea_hash,
                   advances>>

\* Faulty variant: the last attempt is retried too (attempt < max_retries).
on_rate_limit_off_by_one ==
    IF attempt < max_retries
    THEN pc' = "backoff" /\ shown' = Show("rate_limit_warning", "none")
    ELSE pc' = "idle" /\ shown' = Show("exhausted", "none")

\* except RateLimitError: wait and retry while attempt < max_retries - 1,
\* otherwise report "All providers exhausted after retries" and break.
on_rate_limit ==
    IF attempt < max_retries - 1
    THEN pc' = "backoff" /\ shown' = Show("rate_limit_warning", "none")
    ELSE pc' = "idle" /\ shown' = Show("exhausted", "none")

CallRateLimit ==
    /\ pc = "call"
    /\ cache_lookup(cache, cache_key(idea_hash, idea)) = {}
    /\ trace' = Append(trace, Event("rate", "none", 0))
    /\ on_rate_limit
    /\ UNCHANGED <<secrets, validation_count, last_request_time, active_provider, cache,
                   idea, idea_hash, attempt, ctorFails, advances>>

\* Faulty variant: any exception is retried like a rate limit.
on_exception_retry ==
    IF attempt < max_retries - 1
    THEN pc' = "backoff" /\ shown' = Show("rate_limit_warning", "none")
    ELSE pc' = "idle" /\ shown' = Show("fatal", "none")

\* except Exception: report the error and break.
on_exception ==
    /\ pc' = "idle"
    /\ shown' = Show("fatal", "none")

CallFatal ==
    /\ pc = "call"
    /\ cache_lookup(cache, cache_key(idea_hash, idea)) = {}
    /\ trace' = Append(trace, Event("fatal", "none", 0))
    /\ on_exception
    /\ UNCHANGED <<secrets, validation_count, last_request_time, active_provider, cache,
                   idea, idea_hash, attempt, ctorFails, advances>>

\* "Try next provider", lines 347-359: get_llm_with_fallback() again; if it
\* raises, report and break, otherwise the loop goes on with attempt + 1.
reselect(fails, slept) ==
    IF get_llm_with_fallback(secrets, fails) = SelectionError
    THEN /\ trace' = trace \o <<slept, Event("selectfail", "none", 0)>>
         /\ shown' = Show("all_rate_limited", "none")
         /\ pc' = "idle"
         /\ UNCHANGED <<active_provider, attempt>>
    ELSE /\ trace' = trace \o <<slept, Event("select", "none", 0)>>
         /\ active_provider' = get_llm_with_fallback(secrets, fails)
         /\ shown' = Show("running", "none")
         /\ attempt' = attempt + 1
         /\ pc' = "call"

\* The progress-bar sleep of retry_delays[attempt] seconds, then the re-selection.
Backoff ==
    /\ pc = "backoff"
    /\ last_request_time' = later(last_request_time, retry_delays[attempt + 1])
    /\ cache' = cache_later(cache, retry_delays[attempt + 1])
    /\ \E fails \in Failures(secrets) :
         /\ ctorFails' = fails
         /\ reselect(fails, Event("sleep", "none", retry_delays[attempt + 1]))
    /\ UNCHANGED <<secrets, validation_count, idea, idea_hash, advances>>

-----------------------------------------------------------------------------
\* "Reset Session", lines 448-452: the counters and the cache are cleared,
\* then st.rerun() starts a new run.
Reset ==
    /\ pc = "idle"
    /\ SidebarShown
    /\ validation_count' = 0
    /\ last_request_time' = None
    /\ cache' = {}
    /\ \E fails \in Failures(secrets) :
         \/ Halted(fails)
         \/ Selected(fails) /\ shown' = Show("form", "none") /\ NoHandler
    /\ UNCHANGED <<secrets, advances>>

Next ==
    \/ \E d \in Gaps : Rerun(d)
    \/ \E text \in Texts : Submit(text)
    \/ CallHit
    \/ \E r \in Reports : CallOk(r)
    \/ CallRateLimit
    \/ CallFatal
    \/ Backoff
    \/ Reset

Spec == Init /\ [][Next]_vars

-----------------------------------------------------------------------------
\* Vocabulary of the properties.

IsCall(e) == e.ev \in {"hit", "ok", "rate", "fatal"}

\* the calls of run_single_agent_validation made by the running handler, in order
Calls == SelectSeq(trace, IsCall)

\* position of a provider name in the list
index_of(name) == CHOOSE i \in 1..Len(providers) : providers[i].name = name

Available(i) == providers[i].api_key_name \in secrets /\ providers[i].name \notin ctorFails

\* the provider that follows p in the order Groq -> OpenRouter -> Hugging Face
\* among those whose key is present, going round
next_in_order(p) ==
    LET later_ones == {i \in 1..Len(providers) : i > index_of(p) /\ providers[i].api_key_name \in secrets}
        all_ones == {i \in 1..Len(providers) : providers[i].api_key_name \in secrets}
        least(S) == CHOOSE i \in S : \A j \in S : i <= j
    IN  providers[IF later_ones # {} THEN least(later_ones) ELSE least(all_ones)].name

Rejections == {"empty_warning", "limit", "cooldown"}

\* a step that accepts a submission
AcceptStep == pc = "idle" /\ pc' = "call"

\* a run in which "Validate Idea" was clicked and the handler was reached:
\* it rejected the submission or entered the loop
ClickStep == pc = "idle" /\ shown'.kind \in Rejections \cup {"running"}

-----------------------------------------------------------------------------
\* C1: when the first k calls of the job runner (k in 0..2) raise
\* RateLimitError and call k+1 succeeds, the submission made exactly k+1
\* calls, the handler is over and the report of call k+1 is shown.
C1_SuccessAfterRateLimits ==
    \A k \in 0..(max_retries - 1) :
        ( /\ Len(Calls) >= k + 1
          /\ \A j \in 1..k : Calls[j].ev = "rate"
          /\ Calls[k + 1].ev \in {"ok", "hit"} )
        => ( /\ Len(Calls) = k + 1
             /\ pc = "idle"
             /\ shown = Show("done", Calls[k + 1].report) )

\* two rate limits, then a report on the third call
C1_Witness ==
    /\ Len(Calls) = max_retries
    /\ Calls[1].ev = "rate" /\ Calls[2].ev = "rate" /\ Calls[max_retries].ev = "ok"
    /\ shown.kind = "done"

\* C2 as stated: a finished submission all of whose job-runner calls raised
\* RateLimitError made exactly 3 calls and ended with the "exhausted" report,
\* with a sleep after each call but the last.
C2_AsStated ==
    (pc = "idle" /\ Calls # <<>> /\ \A j \in 1..Len(Calls) : Calls[j].ev = "rate")
    => ( /\ Len(Calls) = max_retries
         /\ shown.kind = "exhausted"
         /\ trace[Len(trace)].ev = "rate" )

\* C2, amended: a finished submission all of whose calls raised
\* RateLimitError either had every re-selection succeed, and then made
\* exactly 3 calls, slept 10 s and 20 s between them and not after the last,
\* and shows "exhausted"; or had a re-selection raise, and then stopped
\* right after that wait with fewer than 3 calls and shows "all providers
\* rate-limited".  No submission makes a 4th call.
C2_Exhaustion ==
    /\ Len(Calls) <= max_retries
    /\ (pc = "idle" /\ Calls # <<>> /\ \A j \in 1..Len(Calls) : Calls[j].ev = "rate")
       => \/ /\ \A i \in 1..Len(trace) : trace[i].ev # "selectfail"
             /\ trace = << Event("rate", "none", 0),
                           Event("sleep", "none", retry_delays[1]), Event("select", "none", 0),
                           Event("rate", "none", 0),
                           Event("sleep", "none", retry_delays[2]), Event("select", "none", 0),
                           Event("rate", "none", 0) >>
             /\ shown.kind = "exhausted"
          \/ /\ trace[Len(trace)].ev = "selectfail"
             /\ \A i \in 1..(Len(trace) - 1) : trace[i].ev # "selectfail"
             /\ Len(Calls) < max_retries
             /\ shown.kind = "all_rate_limited"

C2_Witness == shown.kind = "exhausted" /\ Len(Calls) = max_retries

\* C3: an exception other than RateLimitError is the last event of its
\* submission, whatever the attempt: the handler is over, "fatal" is shown,
\* no sleep, re-selection or call follows; on the first attempt that is one call.
C3_FatalStops ==
    /\ \A i \in 1..Len(trace) :
          trace[i].ev = "fatal" => (i = Len(trace) /\ pc = "idle" /\ shown.kind = "fatal")
    /\ (trace # <<>> /\ trace[1].ev = "fatal") => Len(Calls) = 1

\* the exception comes on the second attempt
C3_Witness == Len(Calls) = 2 /\ Calls[2].ev = "fatal" /\ shown.kind = "fatal"

\* C4 as stated: the attempt after a rate limit uses the next configured
\* provider in the order Groq -> OpenRouter -> Hugging Face.
C4_AsStated ==
    [][(pc = "backoff" /\ pc' = "call") => active_provider' = next_in_order(active_provider)]_vars

\* C5: whenever a selection returned a provider, it is the first of the list
\* whose key is present and whose construction did not raise: providers that
\* raise are skipped, and none before the returned one is available.
C5_SelectorPriority ==
    (active_provider # NoProvider /\ shown.kind # "all_rate_limited")
    => /\ Available(index_of(active_provider))
       /\ \A j \in 1..(index_of(active_provider) - 1) : ~Available(j)

\* all three keys present, Groq's construction raises, OpenRouter is returned
C5_Witness ==
    /\ secrets = KeyNames
    /\ ctorFails = {providers[1].name}
    /\ active_provider = providers[2].name

\* C6: with no credential the selection fails, the page never shows the
\* button, no submission is accepted and the job runner is never called.
C6_NoProviderHalts ==
    secrets = {}
    => /\ \A F \in SUBSET ProviderNames : get_llm_with_fallback(secrets, F) = SelectionError
       /\ shown.kind \in {"unloaded", "config_error"}
       /\ ~ButtonShown
       /\ active_provider = NoProvider
       /\ pc = "idle"
       /\ trace = <<>>
       /\ validation_count = 0
       /\ cache = {}

C6_Witness == secrets = {} /\ shown.kind = "config_error"

\* C7 as stated: the first call of an accepted submission returns the stored
\* report, without running the job runner, exactly when the cache holds an
\* unexpired report for the same normalized text.
C7_AsStated ==
    [][(pc = "call" /\ attempt = 0)
       => LET stored == {e \in cache : e.key.idea_hash = idea_hash /\ fresh(e)}
          IN  IF stored # {}
              THEN trace'[1].ev = "hit" /\ \E e \in stored : shown' = Show("done", e.value)
              ELSE trace'[1].ev # "hit"]_vars

\* C8 as stated: with the cap not reached and a non-blank text, a submission
\* is rejected by the cooldown exactly when fewer than 300 seconds have passed
\* since the last accepted one, and is accepted otherwise.
C8_AsStated ==
    [][(ClickStep /\ ~is_blank(idea') /\ validation_count < session_limit)
       => /\ shown'.kind = "cooldown"
              <=> (last_request_time # None /\ Now - last_request_time[1] < cooldown_period)
          /\ shown'.kind # "cooldown" => AcceptStep]_vars

\* C9: validation_count stays in 0..3; it changes only by an accepted
\* submission (+1, whatever the loop does afterwards) or by Reset Session
\* (to 0, with last_request_time None); at 3 every submission is rejected,
\* whatever the time since the last one; with count 0 and no last request a
\* non-blank submission is accepted at once.
C9_SessionCap ==
    [][/\ validation_count' \in 0..session_limit
       /\ AcceptStep => (validation_count < session_limit /\ validation_count' = validation_count + 1)
       /\ validation_count' # validation_count => (AcceptStep \/ Reset)
       /\ validation_count' < validation_count => (validation_count' = 0 /\ last_request_time' = None)
       /\ (ClickStep /\ validation_count >= session_limit)
          => (shown'.kind \in {"empty_warning", "limit"} /\ UNCHANGED validation_count)
       /\ (ClickStep /\ ~is_blank(idea') /\ validation_count = 0 /\ last_request_time = None)
          => AcceptStep]_vars

\* the 4th submission is rejected although the cooldown is over
C9_Witness ==
    /\ validation_count = session_limit
    /\ shown.kind = "limit"
    /\ Now - last_request_time[1] >= cooldown_period

\* C10: a rejected submission changes neither validation_count nor
\* last_request_time nor the cache, calls nothing and leaves nothing pending;
\* a blank text is always rejected; the handler only starts in the run of a
\* click, with the text of that click.
C10_RejectionHasNoEffect ==
    [][/\ (ClickStep /\ shown'.kind \in Rejections)
          => /\ UNCHANGED <<validation_count, last_request_time, cache>>
             /\ pc' = "idle"
             /\ trace' = <<>>
       /\ (ClickStep /\ is_blank(idea')) => shown'.kind = "empty_warning"
       /\ pc' # "idle" => (pc # "idle" \/ (ClickStep /\ ~is_blank(idea')))]_vars

\* a submission rejected by the cooldown
C10_Witness == shown.kind = "cooldown" /\ validation_count >= 1

====
